---- MODULE Spec2Model ----
(***************************************************************************)
(* LocalizationEditorViewProvider of vscode-xp: the webview message        *)
(* handlers (saveLocalizations, buildLocalizations), saveLocalization,     *)
(* getLocalizationExamples and showLocalizationEditor, as a state machine. *)
(* Every `await` of the TypeScript code is a suspension point: a handler   *)
(* is a process whose pc names the await it is suspended at, and other     *)
(* handlers and commands may run between two of its steps.                 *)
(*                                                                         *)
(* Strings are sequences of one-character strings, so that trim() and      *)
(* textToOneLineAndTrim() are computed and not assumed.                    *)
(***************************************************************************)
EXTENDS Integers, Sequences, FiniteSets, TLC

(***************************************************************************)
(* Bounds of the model.                                                    *)
(***************************************************************************)
\* calls of updateRule in one run
MaxUpdates == 2
\* rows (criteria) in one submitted batch
MaxCriteria == 2
\* webview messages received in one run; each has its own handler
MaxHandlers == 2
\* calls of showLocalizationEditor by the command, in one run
MaxOpens == 2

(***************************************************************************)
(* Strings.                                                                *)
(***************************************************************************)
WhiteSpace == {" ", "\n"}
LineBreaks == {"\n"}

RECURSIVE TrimStart(_)
TrimStart(s) ==
    IF s = <<>> THEN s
    ELSE IF Head(s) \in WhiteSpace THEN TrimStart(Tail(s)) ELSE s

RECURSIVE TrimEnd(_)
TrimEnd(s) ==
    IF s = <<>> THEN s
    ELSE IF s[Len(s)] \in WhiteSpace THEN TrimEnd(SubSeq(s, 1, Len(s) - 1)) ELSE s

\* The mutant of Trim: only leading white space is removed.
TrimStartOnly(s) == TrimStart(s)

\* String.prototype.trim
Trim(s) == TrimEnd(TrimStart(s))

NotLineBreak(c) == c \notin LineBreaks

\* StringHelper.textToOneLineAndTrim: line breaks removed, then trimmed.
textToOneLineAndTrim(s) == Trim(SelectSeq(s, NotLineBreak))

(***************************************************************************)
(* JsHelper.findDuplicates: the first element, in input order, that equals *)
(* an earlier element; NoDuplicate (null) when there is none.              *)
(***************************************************************************)
NoDuplicate == <<"null">>

DuplicatePositions(arr) == {j \in 1..Len(arr) : \E i \in 1..(j - 1) : arr[i] = arr[j]}

Min(S) == CHOOSE x \in S : \A y \in S : x <= y

findDuplicates(arr) ==
    IF DuplicatePositions(arr) = {} THEN NoDuplicate
    ELSE arr[Min(DuplicatePositions(arr))]

(***************************************************************************)
(* What the webview posts: message.localizations.  The four arrays are     *)
(* parallel, one index per row of the editor.                              *)
(***************************************************************************)
RuDescriptionInputs == {<<"d">>, <<" ", "e", " ">>}
EnDescriptionInputs == {<<"d", "\n">>}

Row(criterion, ru, en, id) == [Criteria |-> criterion, Ru |-> ru, En |-> en, Id |-> id]

\* The rows a batch is made of: two criteria that are equal after trimming
\* and a third one, each with a one-line or a two-line text, with or without
\* an id.
Rows ==
    {Row(<<"a">>,      <<"x">>,                <<" ", "z", "\n">>, <<" ">>),
     Row(<<"a", " ">>, <<"x", "\n", "y", " ">>, <<" ", "z", "\n">>, <<" ", "i">>),
     Row(<<"b">>,      <<"x", "\n", "y", " ">>, <<" ", "z", "\n">>, <<" ", "i">>),
     Row(<<"b">>,      <<"x">>,                <<" ", "z", "\n">>, <<" ">>)}

RowSeqs == UNION {[1..n -> Rows] : n \in 0..MaxCriteria}

Payload(ruDescription, enDescription, rows) ==
    [RuDescription |-> ruDescription,
     EnDescription |-> enDescription,
     Criteria |-> [i \in 1..Len(rows) |-> rows[i].Criteria],
     RuLocalizations |-> [i \in 1..Len(rows) |-> rows[i].Ru],
     EnLocalizations |-> [i \in 1..Len(rows) |-> rows[i].En],
     LocalizationIds |-> [i \in 1..Len(rows) |-> rows[i].Id]]

Payloads ==
    {Payload(rd, ed, rows) : rd \in RuDescriptionInputs, ed \in EnDescriptionInputs, rows \in RowSeqs}

\* The batches posted while builds run concurrently: an empty one, one row,
\* and two rows whose criteria are equal after trimming.
PipelineRows ==
    {<<>>,
     <<Row(<<"a", " ">>, <<"x">>, <<" ", "z", "\n">>, <<" ">>)>>,
     <<Row(<<"a">>, <<"x">>, <<" ", "z", "\n">>, <<" ">>),
       Row(<<"a", " ">>, <<"x">>, <<" ", "z", "\n">>, <<" ">>)>>}

PipelinePayloads == {Payload(<<"d">>, <<"d", "\n">>, rows) : rows \in PipelineRows}

NoMessage == Payload(<<>>, <<>>, <<>>)

(***************************************************************************)
(* Rules (RuleBaseItem objects), panels, artifact directories.             *)
(***************************************************************************)
RuleObjects == {"corrA", "enrB"}

\* TestHelper.isTestedLocalizationsRule: only correlations are supported.
isTestedLocalizationsRule(o) == o = "corrA"

NoRule == "undefined"
NoPanel == 0
NoPath == 0

\* Localization.create(criteria, ruText, enText): no localization id yet.
LocalizationCreate(cr, ruLoc, enLoc) ==
    [Criteria |-> cr, RuText |-> ruLoc, EnText |-> enLoc,
     HasId |-> FALSE, LocalizationId |-> <<>>]

setLocalizationId(loc, locId) ==
    [loc EXCEPT !.HasId = TRUE, !.LocalizationId = locId]

InitialLocalizations ==
    << setLocalizationId(LocalizationCreate(<<"b">>, <<"o">>, <<"o">>), <<"o">>) >>

InitialRule ==
    [RuDescription |-> <<"d">>, EnDescription |-> <<"d">>,
     Localizations |-> InitialLocalizations,
     Status |-> "Default", Examples |-> <<>>]

Handlers == 1..MaxHandlers

\* LocalizationExample.ruText of the examples the extractor returns: a text
\* written by the author, or the platform's default localization.
ExampleLists == {<<>>, <<"authored">>, <<"authored", "default">>}

\* TestHelper.isDefaultLocalization
isDefaultLocalization(ruText) == ruText = "default"

\* locExamples before line 212 has assigned it
NoExamples == <<"undefined">>

\* A handler of receiveMessageFromWebView.  pc names the await it is suspended
\* at; message, requested (the rule a build was started for and has reset the
\* status of), target (the rule an awaited call was made on), path (the
\* directory an awaited call was given), result and locExamples are its
\* locals; the other fields record what it has done so far.
IdleHandler ==
    [pc |-> "idle", command |-> "none", message |-> NoMessage,
     requested |-> NoRule, target |-> NoRule, path |-> NoPath, result |-> "undefined", locExamples |-> NoExamples,
     saved |-> "no", shown |-> <<>>, entries |-> <<>>, setTemplates |-> FALSE,
     saveMetaCalls |-> 0,
     dirRead |-> "none", tests |-> "none", extractions |-> 0, classified |-> "no",
     exception |-> "none", cleanups |-> 0, warned |-> FALSE, rejected |-> FALSE]

\* No call of updateRule yet
NoUpdate == [calls |-> 0, newRule |-> NoRule, result |-> FALSE]

VARIABLES
    view,       \* this._view: the panel, or NoPanel
    rule,       \* this._rule: a rule object, or NoRule
    tmpPath,    \* this.integrationTestTmpFilesPath
    live,       \* the panels created and not disposed
    rules,      \* the fields of every rule object
    dirs,       \* the artifact directories: absent, empty or nonempty
    hs,         \* the handlers of receiveMessageFromWebView, one per message
    updated     \* the calls of updateRule so far, the last argument and result

vars == <<view, rule, tmpPath, live, rules, dirs, hs, updated>>

Init ==
    /\ view = NoPanel
    /\ rule = NoRule
    /\ tmpPath = NoPath
    /\ live = {}
    /\ rules = [o \in RuleObjects |-> InitialRule]
    /\ dirs = [p \in 1..MaxOpens |-> "absent"]
    /\ hs = [h \in Handlers |-> IdleHandler]
    /\ updated = NoUpdate

(***************************************************************************)
(* showLocalizationEditor(rule, keepTmpFiles).  The command calls it with  *)
(* keepTmpFiles = false, the build handler re-opens with true.  `created`  *)
(* is FALSE when createWebviewPanel throws (caught at line 99).            *)
(***************************************************************************)
\* config.getRandTmpSubDirectoryPath(): a path not handed out before (the
\* paths are numbered in the order they are handed out)
getRandTmpSubDirectoryPath == tmpPath + 1

NewPanel == CHOOSE p \in 1..(Cardinality(live) + 1) : p \notin (live \ {view})

\* The mutant of showLocalizationEditor: the open panel is not disposed
\* (lines 59-62 are missing).
showLocalizationEditorNoDispose(r, keepTmpFiles, created) ==
    LET fresh == CHOOSE p \in 1..(Cardinality(live) + 1) : p \notin live
    IN  /\ live' = live \cup (IF created THEN {fresh} ELSE {})
        /\ view' = IF created THEN fresh ELSE NoPanel
        /\ rule' = r
        /\ tmpPath' = IF keepTmpFiles THEN tmpPath ELSE getRandTmpSubDirectoryPath

showLocalizationEditor(r, keepTmpFiles, created) ==
    /\ live' = (live \ {view}) \cup (IF created THEN {NewPanel} ELSE {})
    /\ view' = IF created THEN NewPanel ELSE NoPanel
    /\ rule' = r
    /\ tmpPath' = IF keepTmpFiles THEN tmpPath ELSE getRandTmpSubDirectoryPath

\* The command LocalizationView.showLocalizationEditor
ShowLocalizationEditorCommand(r, created) ==
    /\ tmpPath < MaxOpens
    /\ showLocalizationEditor(r, FALSE, created)
    /\ UNCHANGED <<updated, rules, dirs, hs>>

\* The user closes the panel: onDidDispose sets _view to undefined.
OnDidDispose ==
    /\ view /= NoPanel
    /\ live' = live \ {view}
    /\ view' = NoPanel
    /\ UNCHANGED <<updated, rule, tmpPath, rules, dirs, hs>>

(***************************************************************************)
(* saveLocalization(localization, informUser), lines 262-308.              *)
(***************************************************************************)
criteria(localization) ==
    [i \in 1..Len(localization.Criteria) |-> Trim(localization.Criteria[i])]

ruLocalizations(localization) ==
    [i \in 1..Len(localization.RuLocalizations) |->
        textToOneLineAndTrim(localization.RuLocalizations[i])]

enLocalizations(localization) ==
    [i \in 1..Len(localization.EnLocalizations) |->
        textToOneLineAndTrim(localization.EnLocalizations[i])]

localizationIds(localization) ==
    [i \in 1..Len(localization.LocalizationIds) |-> Trim(localization.LocalizationIds[i])]

\* The mutant of localizations: the id is set without looking at it (line 292).
localizationsIdAlwaysSet(localization) ==
    [index \in 1..Len(criteria(localization)) |->
        setLocalizationId(LocalizationCreate(criteria(localization)[index],
                                             ruLocalizations(localization)[index],
                                             enLocalizations(localization)[index]),
                          localizationIds(localization)[index])]

\* lines 286-297: criteria.map((cr, index) => ...)
localizations(localization) ==
    [index \in 1..Len(criteria(localization)) |->
        LET loc == LocalizationCreate(criteria(localization)[index],
                                      ruLocalizations(localization)[index],
                                      enLocalizations(localization)[index])
            locId == localizationIds(localization)[index]
        IN  IF locId /= <<>> THEN setLocalizationId(loc, locId) ELSE loc]

\* lines 264-271: the descriptions are trimmed and set on the rule
setDescriptions(ruleFields, localization) ==
    [ruleFields EXCEPT !.RuDescription = Trim(localization.RuDescription),
                       !.EnDescription = Trim(localization.EnDescription)]

\* The mutant of setLocalizationTemplates: an empty batch replaces too.
setLocalizationTemplatesAlways(ruleFields, locs) ==
    [ruleFields EXCEPT !.Localizations = locs]

\* lines 300-302: the rule's templates are replaced by a non-empty batch only
setLocalizationTemplates(ruleFields, locs) ==
    IF Len(locs) /= 0 THEN [ruleFields EXCEPT !.Localizations = locs] ELSE ruleFields

ErrorDuplicate(value) == [type |-> "error", text |-> "duplicate criterion", value |-> value]
InfoSaved(o) == [type |-> "info", text |-> "saved", value |-> <<o>>]
ErrorShown(text) == [type |-> "error", text |-> text, value |-> <<>>]

\* The mutant of saveLocalization: the duplicate is reported but line 282 does
\* not return.
saveLocalizationNoReturn(h, self, localization, afterReturn) ==
    LET firstDuplicate == findDuplicates(criteria(localization))
        described == setDescriptions(rules[rule], localization)
    IN  /\ rules' = [rules EXCEPT ![rule] =
                        setLocalizationTemplates(described, localizations(localization))]
        /\ hs' = [hs EXCEPT ![h] =
                    [self EXCEPT !.pc = "saveMetaInfoAndLocalizations",
                                 !.saved = IF firstDuplicate /= NoDuplicate
                                           THEN "rejected" ELSE "built",
                                 !.shown = IF firstDuplicate /= NoDuplicate
                                           THEN Append(@, ErrorDuplicate(firstDuplicate))
                                           ELSE @,
                                 !.entries = localizations(localization),
                                 !.setTemplates = (Len(localizations(localization)) /= 0),
                                 !.saveMetaCalls = @ + 1,
                                 !.target = rule]]

\* The synchronous part of saveLocalization, up to the await of line 304,
\* run by handler h whose record is `self`.  A duplicate returns at line 282
\* and the caller goes on at `afterReturn`.
saveLocalization(h, self, localization, afterReturn) ==
    LET firstDuplicate == findDuplicates(criteria(localization))
        described == setDescriptions(rules[rule], localization)
    IN  IF firstDuplicate /= NoDuplicate
        THEN /\ rules' = [rules EXCEPT ![rule] = described]
             /\ hs' = [hs EXCEPT ![h] =
                        [self EXCEPT !.pc = afterReturn,
                                     !.saved = "rejected",
                                     !.shown = Append(@, ErrorDuplicate(firstDuplicate))]]
        ELSE /\ rules' = [rules EXCEPT ![rule] =
                            setLocalizationTemplates(described, localizations(localization))]
             /\ hs' = [hs EXCEPT ![h] =
                        [self EXCEPT !.pc = "saveMetaInfoAndLocalizations",
                                     !.saved = "built",
                                     !.entries = localizations(localization),
                                     !.setTemplates = (Len(localizations(localization)) /= 0),
                                     !.saveMetaCalls = @ + 1,
                                     !.target = rule]]

(***************************************************************************)
(* receiveMessageFromWebView, case 'saveLocalizations' (lines 250-258).    *)
(***************************************************************************)
\* The webview of the open panel posts a message; handler h is the h-th started.
CanReceive(h) ==
    /\ hs[h].pc = "idle"
    /\ \A k \in 1..(h - 1) : hs[k].pc /= "idle"
    /\ view /= NoPanel

ReceiveSaveLocalizations(h, message) ==
    /\ CanReceive(h)
    /\ saveLocalization(h,
            [hs[h] EXCEPT !.command = "saveLocalizations", !.message = message],
            message, "done")
    /\ UNCHANGED <<updated, view, rule, tmpPath, live, dirs>>

\* line 304 returns: the meta info and the localizations of the rule the call
\* was made on are written; then line 305-307 (informUser is true here).
SaveLocalizationsSaved(h) ==
    /\ hs[h].pc = "saveMetaInfoAndLocalizations"
    /\ hs[h].command = "saveLocalizations"
    /\ hs' = [hs EXCEPT ![h].pc = "done",
                        ![h].shown = Append(@, InfoSaved(rule))]
    /\ UNCHANGED <<updated, view, rule, tmpPath, live, rules, dirs>>

\* line 304 throws: caught at line 255, ExceptionHelper.show
SaveLocalizationsFailed(h) ==
    /\ hs[h].pc = "saveMetaInfoAndLocalizations"
    /\ hs[h].command = "saveLocalizations"
    /\ hs' = [hs EXCEPT ![h].pc = "done",
                        ![h].shown = Append(@, ErrorShown("save failed"))]
    /\ UNCHANGED <<updated, view, rule, tmpPath, live, rules, dirs>>

\* The handler's promise settles.
Return(h) ==
    /\ hs[h].pc = "done"
    /\ hs' = [hs EXCEPT ![h] = [IdleHandler EXCEPT !.pc = "returned"]]
    /\ UNCHANGED <<updated, view, rule, tmpPath, live, rules, dirs>>

(***************************************************************************)
(* receiveMessageFromWebView, case 'buildLocalizations' (lines 198-248).   *)
(***************************************************************************)
InfoUnsupported == [type |-> "info", text |-> "only correlations are supported", value |-> <<>>]
InfoNoneFired == [type |-> "info", text |-> "no localization fired", value |-> <<>>]
ErrorDefaultFound == [type |-> "error", text |-> "default localization found", value |-> <<>>]
PromptReuse == [type |-> "prompt", text |-> "previous results found", value |-> <<>>]

\* lines 362-363, the labels of the two choices, in English here
USE_OLD_TESTS_RESULT == "Use"
RESTART_TESTS == "Repeat"

\* DialogHelper.showInfo(text, USE_OLD_TESTS_RESULT, RESTART_TESTS): the item
\* chosen, or undefined when the dialog is closed
PromptResults == {USE_OLD_TESTS_RESULT, RESTART_TESTS, "undefined"}

\* ExceptionHelper.show(error, ...): a cancellation is shown silently
ExceptionHelperShow(shown, exception) ==
    IF exception = "OperationCanceledException" THEN shown
    ELSE Append(shown, ErrorShown(exception))

\* The mutant of Catch: the temporary files are cleaned after a cancellation too.
CatchAlwaysCleans(self, exception) ==
    [self EXCEPT !.exception = exception,
                 !.shown = ExceptionHelperShow(@, exception),
                 !.pc = "deleteAllSubDirectoriesAndFiles",
                 !.path = tmpPath,
                 !.cleanups = @ + 1]

\* The mutant of Catch: the temporary files are never cleaned.
CatchNeverCleans(self, exception) ==
    [self EXCEPT !.exception = exception,
                 !.shown = ExceptionHelperShow(@, exception),
                 !.pc = "done"]

\* lines 232-241: the catch block, up to the await of the cleanup.  The
\* handler's record after `exception` was thrown in it.
Catch(self, exception) ==
    IF exception = "OperationCanceledException"
    THEN [self EXCEPT !.exception = exception,
                      !.shown = ExceptionHelperShow(@, exception),
                      !.pc = "done"]
    ELSE [self EXCEPT !.exception = exception,
                      !.shown = ExceptionHelperShow(@, exception),
                      !.pc = "deleteAllSubDirectoriesAndFiles",
                      !.path = tmpPath,
                      !.cleanups = @ + 1]

\* lines 200-207
ReceiveBuildLocalizations(h, message) ==
    /\ CanReceive(h)
    /\ IF ~isTestedLocalizationsRule(rule)
       THEN /\ hs' = [hs EXCEPT ![h] =
                        [@ EXCEPT !.command = "buildLocalizations",
                                  !.message = message,
                                  !.pc = "done",
                                  !.shown = Append(@, InfoUnsupported)]]
            /\ UNCHANGED rules
       ELSE /\ rules' = [rules EXCEPT ![rule].Status = "Default"]
            /\ hs' = [hs EXCEPT ![h] =
                        [@ EXCEPT !.command = "buildLocalizations",
                                  !.message = message,
                                  !.pc = "refresh",
                                  !.requested = rule,
                                  !.target = rule]]
    /\ UNCHANGED <<updated, view, rule, tmpPath, live, dirs>>

\* line 207 returns; lines 209-210: saveLocalization(localizations, false)
BuildSaveLocalization(h) ==
    /\ hs[h].pc = "refresh"
    /\ saveLocalization(h, hs[h], hs[h].message, "getLocalizationExamples")
    /\ UNCHANGED <<updated, view, rule, tmpPath, live, dirs>>

\* line 304 returns in a build: informUser is false, line 212 is next
BuildSaved(h) ==
    /\ hs[h].pc = "saveMetaInfoAndLocalizations"
    /\ hs[h].command = "buildLocalizations"
    /\ hs' = [hs EXCEPT ![h].pc = "getLocalizationExamples"]
    /\ UNCHANGED <<updated, view, rule, tmpPath, live, rules, dirs>>

\* lines 335-337: the run is prepared for the provider's directory and rule
PrepareRun(self) ==
    [self EXCEPT !.pc = "getIntegrationTestRunOptions",
                 !.path = tmpPath,
                 !.target = rule]

\* lines 350-352: buildLocalizationExamples(this._rule, this.integrationTestTmpFilesPath)
StartExtraction(self) ==
    [self EXCEPT !.pc = "buildLocalizationExamples",
                 !.path = tmpPath,
                 !.target = rule,
                 !.extractions = @ + 1]

\* saveLocalization has returned: its locals are gone
AfterSaveLocalization(self) ==
    [self EXCEPT !.message = NoMessage, !.entries = <<>>, !.setTemplates = FALSE]

\* lines 311-319: withProgress runs the task; existsSync, then readdir is called
GetLocalizationExamples(h) ==
    /\ hs[h].pc = "getLocalizationExamples"
    /\ hs' = [hs EXCEPT ![h] =
                IF dirs[tmpPath] /= "absent"
                THEN [AfterSaveLocalization(@) EXCEPT !.pc = "readdir", !.path = tmpPath]
                ELSE PrepareRun([AfterSaveLocalization(@) EXCEPT !.dirRead = "absent"])]
    /\ UNCHANGED <<updated, view, rule, tmpPath, live, rules, dirs>>

\* The mutant of ShouldPrompt: an existing directory is enough to prompt.
ShouldPromptIfExists(subDirItems) == subDirItems /= "absent"

\* line 321: subDirItems.length > 0
ShouldPrompt(subDirItems) == subDirItems = "nonempty"

\* line 319 returns; lines 321-325: the prompt is shown for a non-empty directory
ReaddirReturns(h) ==
    /\ hs[h].pc = "readdir"
    /\ hs' = [hs EXCEPT ![h] =
                IF ShouldPrompt(dirs[hs[h].path])
                THEN [@ EXCEPT !.pc = "showInfo",
                               !.dirRead = dirs[hs[h].path],
                               !.shown = Append(@, PromptReuse)]
                ELSE PrepareRun([@ EXCEPT !.dirRead = dirs[hs[h].path]])]
    /\ UNCHANGED <<updated, view, rule, tmpPath, live, rules, dirs>>

\* The mutant of PromptReturns: "repeat" goes on to the extraction as "use" does.
PromptReturnsSkipsRun(h, result) ==
    /\ hs[h].pc = "showInfo"
    /\ hs' = [hs EXCEPT ![h] =
                IF result = "undefined"
                THEN Catch([@ EXCEPT !.result = result], "OperationCanceledException")
                ELSE StartExtraction([@ EXCEPT !.result = result])]
    /\ UNCHANGED <<updated, view, rule, tmpPath, live, rules, dirs>>

\* line 322 returns; lines 328-334
PromptReturns(h, result) ==
    /\ hs[h].pc = "showInfo"
    /\ hs' = [hs EXCEPT ![h] =
                IF result = "undefined"
                THEN Catch([@ EXCEPT !.result = result], "OperationCanceledException")
                ELSE IF result = RESTART_TESTS
                THEN PrepareRun([@ EXCEPT !.result = result])
                ELSE StartExtraction([@ EXCEPT !.result = result])]
    /\ UNCHANGED <<updated, view, rule, tmpPath, live, rules, dirs>>

\* line 337 returns; lines 338-343: testRunner.run(this._rule, options)
StartRun(h) ==
    /\ hs[h].pc = "getIntegrationTestRunOptions"
    /\ hs' = [hs EXCEPT ![h].pc = "run",
                        ![h].target = rule,
                        ![h].tests = "started"]
    /\ UNCHANGED <<updated, view, rule, tmpPath, live, rules, dirs>>

\* The mutant of RunReturns: testsStatus is not looked at (line 345 is missing).
RunReturnsUnchecked(h, testsStatus) ==
    /\ hs[h].pc = "run"
    /\ dirs' = [dirs EXCEPT ![hs[h].path] = "nonempty"]
    /\ hs' = [hs EXCEPT ![h] =
                StartExtraction([@ EXCEPT !.tests = IF testsStatus THEN "passed" ELSE "failed"])]
    /\ UNCHANGED <<updated, view, rule, tmpPath, live, rules>>

\* line 343 returns: the run has written its artifacts; lines 345-352
RunReturns(h, testsStatus) ==
    /\ hs[h].pc = "run"
    /\ dirs' = [dirs EXCEPT ![hs[h].path] = "nonempty"]
    /\ hs' = [hs EXCEPT ![h] =
                IF ~testsStatus
                THEN Catch([@ EXCEPT !.tests = "failed"], "XpException: tests failed")
                ELSE StartExtraction([@ EXCEPT !.tests = "passed"])]
    /\ UNCHANGED <<updated, view, rule, tmpPath, live, rules>>

\* line 343 throws: the cancellation token was observed by the run, which may
\* have written artifacts already
RunCancelled(h, wrote) ==
    /\ hs[h].pc = "run"
    /\ dirs' = IF wrote THEN [dirs EXCEPT ![hs[h].path] = "nonempty"] ELSE dirs
    /\ hs' = [hs EXCEPT ![h] =
                Catch([@ EXCEPT !.tests = "cancelled"], "OperationCanceledException")]
    /\ UNCHANGED <<updated, view, rule, tmpPath, live, rules>>

AwaitedCalls ==
    {"refresh", "saveMetaInfoAndLocalizations", "readdir",
     "getIntegrationTestRunOptions", "run", "buildLocalizationExamples", "refreshAgain"}

\* An awaited call of the build throws something else than a cancellation
\* (an I/O error, a parse error, ...): caught at line 232
AwaitThrows(h) ==
    /\ hs[h].command = "buildLocalizations"
    /\ hs[h].pc \in AwaitedCalls
    /\ hs' = [hs EXCEPT ![h] =
                Catch([@ EXCEPT !.tests = IF hs[h].pc = "run" THEN "threw" ELSE @],
                      "Error")]
    /\ UNCHANGED <<updated, view, rule, tmpPath, live, rules, dirs>>

\* The mutant of verifiedLocalization: every example must be a default one.
verifiedLocalizationEvery(locExamples) ==
    \A i \in 1..Len(locExamples) : isDefaultLocalization(locExamples[i])

\* line 219: locExamples.some(le => TestHelper.isDefaultLocalization(le.ruText))
verifiedLocalization(locExamples) ==
    \E i \in 1..Len(locExamples) : isDefaultLocalization(locExamples[i])

\* The mutant of ExtractionReturns: an empty list is classified too (no return
\* at line 215).
ExtractionReturnsClassifiesEmpty(h, locExamples) ==
    /\ hs[h].pc = "buildLocalizationExamples"
    /\ rules' = [rules EXCEPT ![rule].Status =
                    IF verifiedLocalization(locExamples) THEN "Unverified" ELSE "Verified"]
    /\ hs' = [hs EXCEPT ![h].pc = "refreshAgain",
                        ![h].locExamples = locExamples,
                        ![h].classified = rules'[rule].Status,
                        ![h].target = rule,
                        ![h].shown = IF verifiedLocalization(locExamples)
                                     THEN Append(@, ErrorDefaultFound) ELSE @]
    /\ UNCHANGED <<updated, view, rule, tmpPath, live, dirs>>

\* The mutant of ExtractionReturns: an empty list is thrown as an error.
ExtractionReturnsEmptyThrows(h, locExamples) ==
    /\ hs[h].pc = "buildLocalizationExamples"
    /\ IF Len(locExamples) = 0
       THEN /\ hs' = [hs EXCEPT ![h] =
                        Catch([@ EXCEPT !.locExamples = locExamples,
                                        !.shown = Append(@, InfoNoneFired)], "Error")]
            /\ UNCHANGED rules
       ELSE /\ rules' = [rules EXCEPT ![rule].Status =
                            IF verifiedLocalization(locExamples)
                            THEN "Unverified" ELSE "Verified"]
            /\ hs' = [hs EXCEPT ![h].pc = "refreshAgain",
                                ![h].locExamples = locExamples,
                                ![h].classified = rules'[rule].Status,
                                ![h].target = rule,
                                ![h].shown = IF verifiedLocalization(locExamples)
                                             THEN Append(@, ErrorDefaultFound) ELSE @]
    /\ UNCHANGED <<updated, view, rule, tmpPath, live, dirs>>

\* line 352 returns; lines 214-227
ExtractionReturns(h, locExamples) ==
    /\ hs[h].pc = "buildLocalizationExamples"
    /\ IF Len(locExamples) = 0
       THEN /\ hs' = [hs EXCEPT ![h].pc = "done",
                                ![h].locExamples = locExamples,
                                ![h].shown = Append(@, InfoNoneFired)]
            /\ UNCHANGED rules
       ELSE IF verifiedLocalization(locExamples)
       THEN /\ rules' = [rules EXCEPT ![rule].Status = "Unverified"]
            /\ hs' = [hs EXCEPT ![h].pc = "refreshAgain",
                                ![h].locExamples = locExamples,
                                ![h].classified = "Unverified",
                                ![h].target = rule,
                                ![h].shown = Append(@, ErrorDefaultFound)]
       ELSE /\ rules' = [rules EXCEPT ![rule].Status = "Verified"]
            /\ hs' = [hs EXCEPT ![h].pc = "refreshAgain",
                                ![h].locExamples = locExamples,
                                ![h].classified = "Verified",
                                ![h].target = rule]
    /\ UNCHANGED <<updated, view, rule, tmpPath, live, dirs>>

\* line 227 returns; lines 229-230: the examples are stored and the editor is
\* opened again on the same temporary directory
Reopen(h, created) ==
    /\ hs[h].pc = "refreshAgain"
    /\ rules' = [rules EXCEPT ![rule].Examples = hs[h].locExamples]
    /\ showLocalizationEditor(rule, TRUE, created)
    /\ hs' = [hs EXCEPT ![h].pc = "done"]
    /\ UNCHANGED <<updated, dirs>>

\* FileSystemHelper.deleteAllSubDirectoriesAndFiles: what is in the directory
\* is deleted, the directory stays
deleteAllSubDirectoriesAndFiles(dir) == IF dir = "absent" THEN "absent" ELSE "empty"

\* line 241 returns: the directory given to the cleanup is emptied
CleanupReturns(h) ==
    /\ hs[h].pc = "deleteAllSubDirectoriesAndFiles"
    /\ dirs' = [dirs EXCEPT ![hs[h].path] = deleteAllSubDirectoriesAndFiles(@)]
    /\ hs' = [hs EXCEPT ![h].pc = "done"]
    /\ UNCHANGED <<updated, view, rule, tmpPath, live, rules>>

\* The mutant of CleanupThrows: the failure of the cleanup leaves the handler.
CleanupThrowsUncaught(h) ==
    /\ hs[h].pc = "deleteAllSubDirectoriesAndFiles"
    /\ hs' = [hs EXCEPT ![h].pc = "done", ![h].rejected = TRUE]
    /\ UNCHANGED <<updated, view, rule, tmpPath, live, rules, dirs>>

\* line 241 throws; lines 243-245: Log.warn, nothing is thrown again
CleanupThrows(h) ==
    /\ hs[h].pc = "deleteAllSubDirectoriesAndFiles"
    /\ hs' = [hs EXCEPT ![h].pc = "done", ![h].warned = TRUE]
    /\ UNCHANGED <<updated, view, rule, tmpPath, live, rules, dirs>>

(***************************************************************************)
(* The provider: the command, the panel, and both kinds of message,        *)
(* handled concurrently.                                                   *)
(***************************************************************************)
Next ==
    \/ \E r \in RuleObjects, created \in BOOLEAN : ShowLocalizationEditorCommand(r, created)
    \/ OnDidDispose
    \/ \E h \in Handlers, message \in PipelinePayloads : ReceiveSaveLocalizations(h, message)
    \/ \E h \in Handlers : SaveLocalizationsSaved(h)
    \/ \E h \in Handlers : SaveLocalizationsFailed(h)
    \/ \E h \in Handlers, message \in PipelinePayloads : ReceiveBuildLocalizations(h, message)
    \/ \E h \in Handlers : BuildSaveLocalization(h)
    \/ \E h \in Handlers : BuildSaved(h)
    \/ \E h \in Handlers : GetLocalizationExamples(h)
    \/ \E h \in Handlers : ReaddirReturns(h)
    \/ \E h \in Handlers, result \in PromptResults : PromptReturns(h, result)
    \/ \E h \in Handlers : StartRun(h)
    \/ \E h \in Handlers, testsStatus \in BOOLEAN : RunReturns(h, testsStatus)
    \/ \E h \in Handlers, wrote \in BOOLEAN : RunCancelled(h, wrote)
    \/ \E h \in Handlers : AwaitThrows(h)
    \/ \E h \in Handlers, locExamples \in ExampleLists : ExtractionReturns(h, locExamples)
    \/ \E h \in Handlers, created \in BOOLEAN : Reopen(h, created)
    \/ \E h \in Handlers : CleanupReturns(h)
    \/ \E h \in Handlers : CleanupThrows(h)
    \/ \E h \in Handlers : Return(h)

Spec == Init /\ [][Next]_vars

(***************************************************************************)
(* The editor used for saving only: one rule is opened, and the webview    *)
(* posts 'saveLocalizations' messages, one at a time, with every batch of  *)
(* Payloads.                                                               *)
(***************************************************************************)
NextSave ==
    \/ \E created \in BOOLEAN : ShowLocalizationEditorCommand("corrA", created)
    \/ OnDidDispose
    \/ \E h \in Handlers, message \in Payloads :
        /\ \A k \in 1..(h - 1) : hs[k].pc = "returned"
        /\ ReceiveSaveLocalizations(h, message)
    \/ \E h \in Handlers : SaveLocalizationsSaved(h)
    \/ \E h \in Handlers : SaveLocalizationsFailed(h)
    \/ \E h \in Handlers : Return(h)

SpecSave == Init /\ [][NextSave]_vars

(***************************************************************************)
(* The builds of one editor, one after the other, where every awaited call *)
(* returns or throws and the event loop runs the handler's continuation.   *)
(***************************************************************************)
\* What handler h does after the await it is suspended at
Continue(h) ==
    \/ BuildSaveLocalization(h)
    \/ BuildSaved(h)
    \/ GetLocalizationExamples(h)
    \/ ReaddirReturns(h)
    \/ \E result \in PromptResults : PromptReturns(h, result)
    \/ StartRun(h)
    \/ \E testsStatus \in BOOLEAN : RunReturns(h, testsStatus)
    \/ \E wrote \in BOOLEAN : RunCancelled(h, wrote)
    \/ AwaitThrows(h)
    \/ \E locExamples \in ExampleLists : ExtractionReturns(h, locExamples)
    \/ \E created \in BOOLEAN : Reopen(h, created)
    \/ CleanupReturns(h)
    \/ CleanupThrows(h)
    \/ Return(h)

NextLive ==
    \/ \E r \in RuleObjects, created \in BOOLEAN : ShowLocalizationEditorCommand(r, created)
    \/ OnDidDispose
    \/ \E h \in Handlers, message \in PipelinePayloads :
        /\ \A k \in 1..(h - 1) : hs[k].pc = "returned"
        /\ ReceiveBuildLocalizations(h, message)
    \/ \E h \in Handlers : Continue(h)

SpecLive == Init /\ [][NextLive]_vars /\ \A h \in Handlers : WF_vars(Continue(h))

(***************************************************************************)
(* updateRule(newRule), lines 109-127: the content tree has loaded a rule  *)
(* again and hands the new object to the provider.                         *)
(***************************************************************************)
\* The objects a reload of the rules creates
NewRuleObjects == {"corrA.new", "enrB.new"}

\* RuleBaseItem.getName
getName(o) ==
    IF o \in {"corrA", "corrA.new"} THEN "A"
    ELSE IF o \in {"enrB", "enrB.new"} THEN "B" ELSE "undefined"

\* A rule a build has verified
VerifiedRule == [InitialRule EXCEPT !.Status = "Verified", !.Examples = <<"authored">>]

\* The mutant of UpdateRule: the names are not compared.
UpdateRuleAnyName(newRule) ==
    /\ updated.calls < MaxUpdates
    /\ IF view /= NoPanel /\ rule /= NoRule
       THEN /\ rules' = [rules EXCEPT ![newRule].Status = rules[rule].Status,
                                      ![newRule].Examples = rules[rule].Examples]
            /\ rule' = newRule
            /\ updated' = [calls |-> updated.calls + 1, newRule |-> newRule, result |-> TRUE]
       ELSE /\ UNCHANGED <<rules, rule>>
            /\ updated' = [calls |-> updated.calls + 1, newRule |-> newRule, result |-> FALSE]
    /\ UNCHANGED <<view, tmpPath, live, dirs, hs>>

\* updateRule: iconPath (the status) and the examples are copied to newRule,
\* which becomes the rule of the provider
UpdateRule(newRule) ==
    /\ updated.calls < MaxUpdates
    /\ IF view /= NoPanel /\ rule /= NoRule /\ getName(rule) = getName(newRule)
       THEN /\ rules' = [rules EXCEPT ![newRule].Status = rules[rule].Status,
                                      ![newRule].Examples = rules[rule].Examples]
            /\ rule' = newRule
            /\ updated' = [calls |-> updated.calls + 1, newRule |-> newRule, result |-> TRUE]
       ELSE /\ UNCHANGED <<rules, rule>>
            /\ updated' = [calls |-> updated.calls + 1, newRule |-> newRule, result |-> FALSE]
    /\ UNCHANGED <<view, tmpPath, live, dirs, hs>>

\* The rules of the tree were built or not; the reloaded objects are new
InitUpdate ==
    /\ view = NoPanel
    /\ rule = NoRule
    /\ tmpPath = NoPath
    /\ live = {}
    /\ rules \in [RuleObjects \cup NewRuleObjects -> {InitialRule, VerifiedRule}]
    /\ \A o \in NewRuleObjects : rules[o] = InitialRule
    /\ dirs = [p \in 1..MaxOpens |-> "absent"]
    /\ hs = [h \in Handlers |-> IdleHandler]
    /\ updated = NoUpdate

NextUpdate ==
    \/ \E r \in RuleObjects, created \in BOOLEAN : ShowLocalizationEditorCommand(r, created)
    \/ OnDidDispose
    \/ \E newRule \in RuleObjects \cup NewRuleObjects : UpdateRule(newRule)

SpecUpdate == InitUpdate /\ [][NextUpdate]_vars

(***************************************************************************)
(* Properties.                                                             *)
(***************************************************************************)
Max(S) == CHOOSE x \in S : \A y \in S : x >= y

\* What trimming means: the string between its first and its last character
\* that is not white space.
Trimmed(s) ==
    LET inked == {k \in 1..Len(s) : s[k] \notin WhiteSpace}
    IN  IF inked = {} THEN <<>> ELSE SubSeq(s, Min(inked), Max(inked))

\* The positions of a batch that repeat an earlier criterion, after trimming
RepeatedPositions(localization) ==
    {j \in 1..Len(localization.Criteria) :
        \E i \in 1..(j - 1) :
            Trimmed(localization.Criteria[i]) = Trimmed(localization.Criteria[j])}

\* Handler h runs saveLocalization in this step, on hs'[h].message
SaveStep(h) == hs[h].saved = "no" /\ hs'[h].saved /= "no"

\* C1: a batch with a duplicate criterion (after trimming) builds no
\* Localization entries, does not call setLocalizationTemplates (the rule's
\* localizations stay as they were) and does not call
\* saveMetaInfoAndLocalizations, in a save and in a build, then and later.
C1_DuplicateSavesNothing ==
    /\ [](\A h \in Handlers :
            hs[h].saved = "rejected" =>
                /\ hs[h].entries = <<>>
                /\ ~hs[h].setTemplates
                /\ hs[h].saveMetaCalls = 0
                /\ hs[h].pc /= "saveMetaInfoAndLocalizations")
    /\ [][\A h \in Handlers :
            (SaveStep(h) /\ RepeatedPositions(hs'[h].message) /= {}) =>
                /\ hs'[h].saved = "rejected"
                /\ hs'[h].entries = <<>>
                /\ ~hs'[h].setTemplates
                /\ hs'[h].saveMetaCalls = 0
                /\ rules'[rule].Localizations = rules[rule].Localizations]_vars

C1_Witness ==
    \E h \in Handlers :
        /\ hs[h].command = "buildLocalizations"
        /\ hs[h].saved = "rejected"
        /\ RepeatedPositions(hs[h].message) /= {}
        /\ rules[rule].Localizations = InitialLocalizations

\* C2 (as claimed): a rejected batch mutates nothing of the rule: its
\* descriptions, localizations, status and examples are what they were before
\* saveLocalization, and exactly one error naming the duplicate is shown.
C2_RejectedMutatesNothing ==
    [][\A h \in Handlers :
          (SaveStep(h) /\ hs'[h].saved = "rejected") =>
              /\ rules'[rule] = rules[rule]
              /\ \E i \in 1..Len(hs'[h].message.Criteria) :
                    hs'[h].shown =
                        Append(hs[h].shown,
                               ErrorDuplicate(Trimmed(hs'[h].message.Criteria[i])))]_vars

C4_OneEntryPerIndex ==
    [][\A h \in Handlers :
          (/\ SaveStep(h)
           /\ hs'[h].message.Criteria /= <<>>
           /\ RepeatedPositions(hs'[h].message) = {}) =>
              LET message == hs'[h].message
                  entries == hs'[h].entries
              IN  /\ Len(entries) = Len(message.Criteria)
                  /\ \A i \in 1..Len(message.Criteria) :
                        /\ entries[i].Criteria = Trimmed(message.Criteria[i])
                        /\ entries[i].RuText = textToOneLineAndTrim(message.RuLocalizations[i])
                        /\ entries[i].EnText = textToOneLineAndTrim(message.EnLocalizations[i])
                        /\ entries[i].HasId <=> Trimmed(message.LocalizationIds[i]) /= <<>>
                        /\ entries[i].HasId =>
                              entries[i].LocalizationId = Trimmed(message.LocalizationIds[i])]_vars

C4_Witness ==
    \E h \in Handlers :
        /\ Len(hs[h].entries) = 2
        /\ hs[h].entries[1].Criteria = <<"b">>
        /\ hs[h].entries[2].Criteria = <<"a">>
        /\ hs[h].entries[1].HasId
        /\ ~hs[h].entries[2].HasId
        /\ hs[h].entries[1].RuText /= hs[h].entries[2].RuText

\* C5: a batch that is not rejected replaces all the rule's localizations by
\* exactly its entries when it is not empty, and leaves them when it is empty.
C5_ReplacesOrLeaves ==
    [][\A h \in Handlers :
          (SaveStep(h) /\ RepeatedPositions(hs'[h].message) = {}) =>
              IF hs'[h].message.Criteria /= <<>>
              THEN /\ rules'[rule].Localizations = hs'[h].entries
                   /\ Len(rules'[rule].Localizations) = Len(hs'[h].message.Criteria)
              ELSE rules'[rule].Localizations = rules[rule].Localizations]_vars

\* A second, empty batch was saved and the entries of the first are still there
C5_Witness ==
    /\ hs[MaxHandlers].pc = "done"
    /\ hs[MaxHandlers].saved = "built"
    /\ hs[MaxHandlers].message.Criteria = <<>>
    /\ rules[rule].Localizations /= InitialLocalizations
    /\ Len(rules[rule].Localizations) = MaxCriteria

Shown(h, dialog) == \E i \in 1..Len(hs[h].shown) : hs[h].shown[i] = dialog

\* The awaits of a build after the reuse decision
AfterDecision ==
    {"getIntegrationTestRunOptions", "run", "buildLocalizationExamples", "refreshAgain",
     "deleteAllSubDirectoriesAndFiles", "done"}

\* C6: the reuse prompt is shown exactly when the directory read exists and
\* holds an entry; with no directory or an empty one the build goes on to the
\* test run with no prompt; when the prompt is closed without a choice the
\* build ends as cancelled and neither a test run nor an extraction starts.
C6_PromptOnlyForArtifacts ==
    \A h \in Handlers :
        /\ Shown(h, PromptReuse) <=> hs[h].dirRead = "nonempty"
        /\ hs[h].pc = "showInfo" => Shown(h, PromptReuse)
        /\ hs[h].dirRead \in {"absent", "empty"} =>
              /\ hs[h].pc \in AfterDecision
              /\ hs[h].result = "undefined"
              /\ hs[h].extractions > 0 => hs[h].tests = "passed"
        /\ (hs[h].dirRead = "nonempty" /\ hs[h].result = "undefined"
                /\ hs[h].pc /= "showInfo") =>
              /\ hs[h].pc = "done"
              /\ hs[h].exception = "OperationCanceledException"
              /\ hs[h].tests = "none"
              /\ hs[h].extractions = 0

\* The prompt was closed without a choice
C6_Witness ==
    \E h \in Handlers :
        /\ Shown(h, PromptReuse)
        /\ hs[h].dirRead = "nonempty"
        /\ hs[h].result = "undefined"
        /\ hs[h].pc = "done"
        /\ hs[h].exception = "OperationCanceledException"

\* C7: the extraction starts only after "use old results" was chosen in the
\* build's prompt or the build's test run returned testsStatus = true; after
\* testsStatus = false there is no extraction and no classification, and the
\* tests-failed error is shown.
C7_ExtractionAfterReuseOrPass ==
    \A h \in Handlers :
        /\ hs[h].extractions > 0 =>
              \/ (Shown(h, PromptReuse) /\ hs[h].result = USE_OLD_TESTS_RESULT)
              \/ hs[h].tests = "passed"
        /\ hs[h].pc \in {"buildLocalizationExamples", "refreshAgain"} => hs[h].extractions = 1
        /\ hs[h].tests = "failed" =>
              /\ hs[h].extractions = 0
              /\ hs[h].classified = "no"
              /\ hs[h].exception = "XpException: tests failed"
              /\ Shown(h, ErrorShown("XpException: tests failed"))

C7_Witness ==
    \E h \in Handlers :
        /\ hs[h].tests = "failed"
        /\ hs[h].pc = "done"
        /\ hs[h].extractions = 0
        /\ Shown(h, ErrorShown("XpException: tests failed"))

\* C8 (as claimed): after testsStatus = false the build handler deletes
\* nothing of the artifact directory.
C8_FailedTestsKeepArtifacts ==
    \A h \in Handlers : hs[h].tests = "failed" => hs[h].cleanups = 0

\* C8 (amended): after testsStatus = false the build handler calls the cleanup
\* once, for the directory integrationTestTmpFilesPath names when the error is
\* caught, and a cleanup that returns leaves that directory without entries.
C8_FailedTestsCleanArtifacts ==
    /\ [](\A h \in Handlers :
            hs[h].tests = "failed" =>
                /\ hs[h].cleanups = 1
                /\ hs[h].pc \in {"deleteAllSubDirectoriesAndFiles", "done"})
    /\ [][\A h \in Handlers :
            (/\ hs[h].tests = "failed"
             /\ hs[h].pc = "deleteAllSubDirectoriesAndFiles"
             /\ hs'[h].pc = "done"
             /\ ~hs'[h].warned) => dirs'[hs[h].path] /= "nonempty"]_vars

C8_Witness ==
    \E h \in Handlers :
        /\ hs[h].tests = "failed"
        /\ hs[h].pc = "done"
        /\ hs[h].cleanups = 1
        /\ ~hs[h].warned
        /\ dirs[hs[h].path] = "empty"

\* C9: a cancelled build (the prompt was closed, or the run observed the
\* cancellation) has started no extraction, has classified nothing, has called
\* no cleanup and is finished; its steps delete nothing.
C9_CancelledKeepsArtifacts ==
    /\ [](\A h \in Handlers :
            hs[h].exception = "OperationCanceledException" =>
                /\ hs[h].pc = "done"
                /\ hs[h].extractions = 0
                /\ hs[h].classified = "no"
                /\ hs[h].cleanups = 0)
    /\ [][\A h \in Handlers :
            (hs'[h].exception = "OperationCanceledException" /\ hs'[h] /= hs[h]) =>
                /\ \A p \in DOMAIN dirs : dirs[p] = "nonempty" => dirs'[p] = "nonempty"
                /\ rules' = rules]_vars

\* The run was cancelled after it had written artifacts
C9_Witness ==
    \E h \in Handlers :
        /\ hs[h].tests = "cancelled"
        /\ hs[h].exception = "OperationCanceledException"
        /\ hs[h].pc = "done"
        /\ dirs[hs[h].path] = "nonempty"

\* C10: a build that failed with anything but a cancellation calls the cleanup
\* once; a cleanup that throws is logged as a warning only, and the handler
\* completes without an exception leaving it.
C10_CleanupOnceNeverEscalates ==
    \A h \in Handlers :
        /\ (hs[h].command = "buildLocalizations"
                /\ hs[h].exception \notin {"none", "OperationCanceledException"}) =>
              /\ hs[h].cleanups = 1
              /\ hs[h].pc \in {"deleteAllSubDirectoriesAndFiles", "done"}
        /\ hs[h].cleanups <= 1
        /\ hs[h].warned => (hs[h].pc = "done" /\ hs[h].cleanups = 1)
        /\ ~hs[h].rejected

\* The cleanup after an unexpected error threw
C10_Witness ==
    \E h \in Handlers :
        /\ hs[h].exception = "Error"
        /\ hs[h].cleanups = 1
        /\ hs[h].warned
        /\ hs[h].pc = "done"

\* Handler h classifies in this step (lines 219-225)
ClassifyStep(h) == hs[h].classified = "no" /\ hs'[h].classified /= "no"

\* C11: a build that reaches the classification sets the status of the rule
\* to Unverified when at least one extracted example has a default ruText,
\* and to Verified otherwise.
C11_UnverifiedIffDefaultExample ==
    [][\A h \in Handlers :
          ClassifyStep(h) =>
              LET someDefault ==
                      \E i \in 1..Len(hs'[h].locExamples) :
                          isDefaultLocalization(hs'[h].locExamples[i])
              IN  /\ hs'[h].locExamples /= <<>>
                  /\ rules'[rule].Status = IF someDefault THEN "Unverified" ELSE "Verified"
                  /\ hs'[h].classified = rules'[rule].Status]_vars

\* Authored and default examples together: Unverified
C11_Witness ==
    \E h \in Handlers :
        /\ hs[h].pc = "refreshAgain"
        /\ hs[h].locExamples = <<"authored", "default">>
        /\ hs[h].classified = "Unverified"
        /\ rules[rule].Status = "Unverified"

\* The extraction of handler h has returned an empty list
EmptyExtracted(h) == hs[h].locExamples = <<>>

\* The extraction of handler h returns an empty list in this step
EmptyStep(h) == ~EmptyExtracted(h) /\ EmptyExtracted(h)'

\* C12 (as claimed): a build whose extraction yields no example gives the rule
\* the classification Verified.
C12_EmptyIsVerified ==
    \A h \in Handlers : EmptyExtracted(h) => hs[h].classified = "Verified"

\* C12 (amended): the classification expression is false for an empty list,
\* but a build whose extraction yields no example returns before it: the
\* handler classifies nothing and sets no status, so every rule keeps the
\* status it had, which is not Verified on account of this build.
C12_EmptyIsNotClassified ==
    /\ [](/\ ~verifiedLocalization(<<>>)
          /\ \A h \in Handlers :
                EmptyExtracted(h) => (hs[h].classified = "no" /\ hs[h].pc = "done"))
    /\ [][\A h \in Handlers :
            EmptyStep(h) => \A o \in DOMAIN rules : rules'[o].Status = rules[o].Status]_vars

\* The build has ended with no example and the rule still has the status the
\* build's reset gave it
C12_Witness ==
    \E h \in Handlers :
        /\ EmptyExtracted(h)
        /\ hs[h].tests = "passed"
        /\ hs[h].pc = "done"
        /\ rule = "corrA"
        /\ rules[rule].Status = "Default"

\* C13: a build whose extraction yields no example shows an information
\* notice and is no error: no exception is caught, no cleanup is called, the
\* handler is finished, and its step shows nothing but the notice, deletes
\* nothing and leaves the examples stored on every rule.
C13_EmptyIsInformational ==
    /\ [](\A h \in Handlers :
            EmptyExtracted(h) =>
                /\ Shown(h, InfoNoneFired)
                /\ InfoNoneFired.type = "info"
                /\ hs[h].pc = "done"
                /\ hs[h].exception = "none"
                /\ hs[h].cleanups = 0
                /\ ~hs[h].warned)
    /\ [][\A h \in Handlers :
            EmptyStep(h) =>
                /\ hs'[h].shown = Append(hs[h].shown, InfoNoneFired)
                /\ dirs' = dirs
                /\ \A o \in DOMAIN rules : rules'[o].Examples = rules[o].Examples]_vars

\* No example was extracted from the artifacts of an earlier build, whose
\* examples are still stored
C13_Witness ==
    \E h \in Handlers :
        /\ Shown(h, InfoNoneFired)
        /\ hs[h].result = USE_OLD_TESTS_RESULT
        /\ hs[h].pc = "done"
        /\ dirs[hs[h].path] = "nonempty"
        /\ rules[rule].Examples /= <<>>

\* Handler h is a build that has started and has not finished
BuildInProgress(h) ==
    /\ hs[h].command = "buildLocalizations"
    /\ hs[h].pc \notin {"idle", "done", "returned"}

\* C14 (as claimed): two builds in progress never use the same artifact
\* directory (the directory a build uses is the one its last call was given).
C14_NoTwoBuildsShareDirectory ==
    \A h, k \in Handlers :
        (h /= k /\ BuildInProgress(h) /\ BuildInProgress(k) /\ hs[h].path /= NoPath)
            => hs[h].path /= hs[k].path

\* A build handler h makes a step in which it is given a directory while it
\* already holds one
NextDirectoryStep(h) ==
    /\ hs[h].command = "buildLocalizations"
    /\ hs'[h].command = "buildLocalizations"
    /\ hs[h].path /= NoPath
    /\ hs'[h].path /= NoPath

\* C15 (as claimed): the directory checked, the one given to the test run,
\* the one read by the extractor and the one cleaned are the same path within
\* one build; the path of the provider changes only in showLocalizationEditor
\* called by the command, and the re-open after a build keeps it.
C15_OneDirectoryPerBuild ==
    [][/\ \A h \in Handlers : NextDirectoryStep(h) => hs'[h].path = hs[h].path
       /\ tmpPath' /= tmpPath => hs' = hs
       /\ (\E h \in Handlers : hs[h].pc = "refreshAgain" /\ hs'[h].pc = "done")
             => tmpPath' = tmpPath]_vars

\* C16: at most one panel is live; the panel _view refers to is the live one,
\* and _view is undefined exactly when no panel is live, after every sequence
\* of showLocalizationEditor calls (by the command and by the re-open of a
\* build) and of panels closed.
C16_AtMostOnePanel ==
    /\ Cardinality(live) <= 1
    /\ view = NoPanel <=> live = {}
    /\ view /= NoPanel => live = {view}

\* The editor was opened a second time while a build received on the first
\* panel was in progress
C16_Witness ==
    /\ tmpPath = 2
    /\ view /= NoPanel
    /\ live = {view}
    /\ \E h \in Handlers : BuildInProgress(h) /\ hs[h].path = 1

\* C19 (as claimed): a build whose batch saveLocalization rejected for a
\* duplicate criterion stops there: it shows no reuse prompt, starts no test
\* run and no extraction, and classifies nothing.
C19_RejectedBuildStops ==
    \A h \in Handlers :
        (hs[h].command = "buildLocalizations" /\ hs[h].saved = "rejected") =>
            /\ ~Shown(h, PromptReuse)
            /\ hs[h].tests = "none"
            /\ hs[h].extractions = 0
            /\ hs[h].classified = "no"

\* Build handler h goes on after the prompt, the test run or the extraction;
\* hs[h].target is the rule its calls were made on so far
BuildStep(h) ==
    /\ hs[h].command = "buildLocalizations"
    /\ hs[h].pc \in {"showInfo", "run", "buildLocalizationExamples"}
    /\ hs[h].target /= NoRule
    /\ hs'[h] /= hs[h]

\* C20 (as claimed): a build that was suspended at the prompt, the test run
\* or the extraction makes its next call on the rule it worked on before, and
\* changes the status and the examples of no other rule, whatever
\* showLocalizationEditor was called for meanwhile.
C20_BuildStaysOnItsRule ==
    [][\A h \in Handlers :
          BuildStep(h) =>
              /\ hs'[h].target = hs[h].target
              /\ \A o \in DOMAIN rules : o /= hs[h].target => rules'[o] = rules[o]]_vars

\* C18: updateRule replaces the rule of the provider exactly when a panel is
\* open, there is a current rule and the names are equal; then it returns
\* true and the new rule has the old rule's icon (status) and examples;
\* otherwise it returns false and the provider's rule, the panel and the new
\* rule are as before.
C18_UpdateRuleSameNameOnly ==
    [][updated'.calls /= updated.calls =>
          LET newRule == updated'.newRule
          IN  IF view /= NoPanel /\ rule /= NoRule /\ getName(rule) = getName(newRule)
              THEN /\ updated'.result
                   /\ rule' = newRule
                   /\ view' = view
                   /\ rules'[newRule].Status = rules[rule].Status
                   /\ rules'[newRule].Examples = rules[rule].Examples
              ELSE /\ ~updated'.result
                   /\ rule' = rule
                   /\ view' = view
                   /\ rules'[newRule] = rules[newRule]]_vars

\* A reloaded rule has replaced the verified rule of the same name and has
\* its status and examples
C18_Witness ==
    /\ updated.result
    /\ updated.newRule = "corrA.new"
    /\ rule = "corrA.new"
    /\ view /= NoPanel
    /\ rules["corrA.new"].Status = "Verified"
    /\ rules["corrA.new"].Examples = <<"authored">>

\* The stage of the session state machine a build handler is in
Stage(self) ==
    CASE self.pc \in {"idle", "done", "returned"} -> "IDLE"
      [] self.pc \in {"refresh", "saveMetaInfoAndLocalizations", "getLocalizationExamples",
                      "readdir", "showInfo"} -> "PREPARING_ARTIFACTS"
      [] self.pc \in {"getIntegrationTestRunOptions", "run"} -> "RUNNING_TESTS"
      [] self.pc = "buildLocalizationExamples" -> "EXTRACTING"
      [] self.pc = "refreshAgain" -> "CLASSIFIED"
      [] self.pc = "deleteAllSubDirectoriesAndFiles" -> "CLEANUP"

\* The build ends early: an exception was caught, or the handler returned
\* with a notice (rule not supported, no example)
EndsEarly(before, after) ==
    /\ Stage(after) \in {"IDLE", "CLEANUP"}
    /\ \/ (before.exception = "none" /\ after.exception /= "none")
       \/ (after.shown /= before.shown /\ after.exception = "none")

\* C17: a build goes through the stages in the order IDLE,
\* PREPARING_ARTIFACTS, then RUNNING_TESTS or (with "use old results" chosen)
\* straight on, EXTRACTING, CLASSIFIED, IDLE: a stage is entered only from
\* the one before it; a build may end early from any stage, to IDLE, through
\* the cleanup unless it was cancelled; and every build in progress
\* eventually returns, when every awaited call returns or throws.
C17_StagesInOrderAndReturn ==
    /\ [][\A h \in Handlers :
            LET before == hs[h]
                after == hs'[h]
                move == <<Stage(before), Stage(after)>>
            IN  \/ Stage(after) = Stage(before)
                \/ move = <<"IDLE", "PREPARING_ARTIFACTS">> /\ before.pc = "idle"
                \/ move = <<"PREPARING_ARTIFACTS", "RUNNING_TESTS">>
                     /\ after.result /= USE_OLD_TESTS_RESULT
                \/ move = <<"PREPARING_ARTIFACTS", "EXTRACTING">>
                     /\ after.result = USE_OLD_TESTS_RESULT
                \/ move = <<"RUNNING_TESTS", "EXTRACTING">> /\ after.tests = "passed"
                \/ move = <<"EXTRACTING", "CLASSIFIED">> /\ after.classified /= "no"
                \/ move = <<"CLASSIFIED", "IDLE">> /\ after.exception = "none"
                \/ move = <<"CLEANUP", "IDLE">>
                \/ EndsEarly(before, after)
                     /\ (Stage(after) = "CLEANUP"
                            <=> after.exception \notin {"none", "OperationCanceledException"})]_vars
    /\ \A h \in Handlers : BuildInProgress(h) ~> (hs[h].pc = "returned")

\* The second build of the editor has reused the artifacts of the first and
\* has classified the rule
C17_Witness ==
    /\ hs[1].pc = "returned"
    /\ hs[2].pc = "done"
    /\ hs[2].result = USE_OLD_TESTS_RESULT
    /\ hs[2].tests = "none"
    /\ hs[2].extractions = 1
    /\ hs[2].classified = "Verified"

\* Build handler h, started for a rule whose status it has reset, ends in
\* this step without having classified
EndsUnclassifiedStep(h) ==
    /\ hs[h].pc /= "done"
    /\ hs'[h].pc = "done"
    /\ hs'[h].requested /= NoRule
    /\ hs'[h].classified = "no"

\* C21 (as claimed): a build for a rule that can be tested resets the rule's
\* status to Default first; when a build ends without a classification the
\* rule it was started for has the status Default; and a rule becomes
\* Verified only in the classification of a build started for that rule, on
\* a list of examples that is not empty and has no default localization.
C21_NoStaleStatus ==
    [][/\ \A h \in Handlers :
            (hs[h].pc = "idle" /\ hs'[h].requested /= NoRule) =>
                rules'[hs'[h].requested].Status = "Default"
       /\ \A h \in Handlers :
            EndsUnclassifiedStep(h) => rules'[hs'[h].requested].Status = "Default"
       /\ \A o \in DOMAIN rules :
            (rules[o].Status /= "Verified" /\ rules'[o].Status = "Verified") =>
                \E h \in Handlers :
                    /\ ClassifyStep(h)
                    /\ hs[h].requested = o
                    /\ hs'[h].locExamples /= <<>>
                    /\ \A i \in 1..Len(hs'[h].locExamples) :
                          ~isDefaultLocalization(hs'[h].locExamples[i])]_vars

====
